---------------------------- MODULE Spec2Model ----------------------------
(***************************************************************************)
(* Model of scripts/sdd/validate_structure.py: SDDValidator and main().    *)
(*                                                                         *)
(* The repository tree that is validated is the environment.  It is a      *)
(* function from a fixed universe of paths to nodes (absent, directory,    *)
(* regular file with a mode and a content).  A content is a sequence of    *)
(* lines; a line keeps exactly the structure the validator's substring     *)
(* tests and regular expressions look at.                                  *)
(***************************************************************************)
EXTENDS Integers, Sequences, FiniteSets, TLC

(***************************************************************************)
(* Bounds of the model.                                                    *)
(***************************************************************************)
\* A validated tree differs from the scaffolded layout in at most MaxEdits places.
MaxEdits == 2

(***************************************************************************)
(* Lines of a file.                                                        *)
(*   text     : n = heading level (number of leading '#'), v = the title   *)
(*   marker   : "[" v ": ..." then "]" iff n = 1                           *)
(*   ghp, sk  : the prefix followed by a run of n alphanumeric characters  *)
(*   apikey   : api_key = <value of n alphanumerics>, v = "quoted"/"bare"  *)
(*   password : password = <value of n non-quote characters>, v as above   *)
(***************************************************************************)
Text(level, title) == [k |-> "text", v |-> title, n |-> level]
Marker(tag, closed) == [k |-> "marker", v |-> tag, n |-> closed]
Ghp(len) == [k |-> "ghp", v |-> "", n |-> len]
Sk(len) == [k |-> "sk", v |-> "", n |-> len]
ApiKey(quoting, len) == [k |-> "apikey", v |-> quoting, n |-> len]
Password(quoting, len) == [k |-> "password", v |-> quoting, n |-> len]

(***************************************************************************)
(* Paths are sequences of names; the root is the empty sequence.           *)
(***************************************************************************)
Root == <<>>
Parent(p) == SubSeq(p, 1, Len(p) - 1)
Name(p) == p[Len(p)]
IsPrefix(s, t) == Len(s) <= Len(t) /\ SubSeq(t, 1, Len(s)) = s
Beneath(p, d) == Len(d) < Len(p) /\ SubSeq(p, 1, Len(d)) = d

RECURSIVE SeqToSet(_)
SeqToSet(s) == IF s = <<>> THEN {} ELSE {Head(s)} \cup SeqToSet(Tail(s))

\* Every path of the model, in the order a directory listing returns them.
PathList ==
    << <<".git">>,
       <<".github">>,
       <<".github", "workflows">>,
       <<"CHANGELOG.md">>,
       <<"CONTRIBUTING.md">>,
       <<"LICENSE">>,
       <<"README.md">>,
       <<"config.yml">>,
       <<"dev-docs">>,
       <<"dev-docs", "agents">>,
       <<"dev-docs", "cli">>,
       <<"dev-docs", "cli", "AGENTS.md">>,
       <<"dev-docs", "cli", "CLAUDE.md">>,
       <<"dev-docs", "git">>,
       <<"dev-docs", "sdd">>,
       <<"dev-docs", "sdd", "AGENTS.md">>,
       <<"dev-docs", "sdd", "CLAUDE.md">>,
       <<"dev-docs", "sdd", "constitution.md">>,
       <<"dev-docs", "sdd", "constitution_update_checklist.md">>,
       <<"dev-docs", "sdd", "lifecycle.md">>,
       <<"logo.png">>,
       <<"node_modules">>,
       <<"node_modules", "pkg">>,
       <<"node_modules", "pkg", "config.yml">>,
       <<"scripts">>,
       <<"scripts", "deploy.sh">>,
       <<"scripts", "sdd">>,
       <<"scripts", "sdd", "validate_structure.py">>,
       <<"scripts", "venv">>,
       <<"scripts", "venv", "settings.py">>,
       <<"specs">>,
       <<"specs", "001-feature">>,
       <<"specs", "001-feature", "spec.md">>,
       <<"specs", "notes.txt">>,
       <<"specs", "overview.md">>,
       <<"templates">>,
       <<"templates", "commands">>,
       <<"tests">>,
       <<"tests", "test_sdd_validation.py">> >>

Paths == SeqToSet(PathList)

\* The suffix of a file name that str.endswith() looks at.
Suffix(name) ==
    CASE name \in {"validate_structure.py", "test_sdd_validation.py", "settings.py"} -> ".py"
      [] name \in {"config.yml"} -> ".yml"
      [] name \in {"AGENTS.md", "CLAUDE.md", "constitution.md", "constitution_update_checklist.md",
                   "lifecycle.md", "CHANGELOG.md", "CONTRIBUTING.md", "README.md", "spec.md",
                   "overview.md"} -> ".md"
      [] name \in {"deploy.sh"} -> ".sh"
      [] name \in {"notes.txt"} -> ".txt"
      [] name \in {"logo.png"} -> ".png"
      [] OTHER -> ""

(***************************************************************************)
(* Nodes of the tree.                                                      *)
(***************************************************************************)
Absent == [kind |-> "absent", mode |-> "ok", lines |-> <<>>]
Dir == [kind |-> "dir", mode |-> "ok", lines |-> <<>>]
File(lines) == [kind |-> "file", mode |-> "ok", lines |-> lines]
\* A file whose read_text() raises: mode is "denied" (PermissionError) or
\* "undecodable" (UnicodeDecodeError); no text is obtained from it.
Unreadable(mode) == [kind |-> "file", mode |-> mode, lines |-> <<>>]


(***************************************************************************)
(* The validator's fixed configuration.                                    *)
(***************************************************************************)
required_dirs ==
    << <<"dev-docs", "sdd">>,
       <<"dev-docs", "agents">>,
       <<"dev-docs", "git">>,
       <<"dev-docs", "cli">>,
       <<"specs">>,
       <<"templates">>,
       <<"templates", "commands">>,
       <<"scripts">>,
       <<"scripts", "sdd">>,
       <<"tests">>,
       <<".github", "workflows">> >>

\* A required section is a substring: with level 0 the bare title, with level
\* 2 the title preceded by "## ".
Section(level, title) == [level |-> level, title |-> title]

\* The keys of required_files, in the dict's insertion order.
required_files ==
    << <<"dev-docs", "sdd", "constitution.md">>,
       <<"dev-docs", "sdd", "constitution_update_checklist.md">>,
       <<"dev-docs", "sdd", "lifecycle.md">> >>

\* The value of required_files for key f.
required_sections(f) ==
    CASE f = <<"dev-docs", "sdd", "constitution.md">> ->
            <<Section(0, "Core Principles"), Section(0, "Development Gates"), Section(0, "Version")>>
      [] f = <<"dev-docs", "sdd", "constitution_update_checklist.md">> ->
            <<Section(0, "Pre-Amendment"), Section(0, "Post-Amendment")>>
      [] f = <<"dev-docs", "sdd", "lifecycle.md">> ->
            <<Section(0, "Lifecycle Phases"), Section(0, "Enforcement"), Section(0, "Traceability")>>
      [] OTHER -> <<>>

contexts ==
    << <<"dev-docs", "sdd", "CLAUDE.md">>,
       <<"dev-docs", "sdd", "AGENTS.md">>,
       <<"dev-docs", "cli", "CLAUDE.md">>,
       <<"dev-docs", "cli", "AGENTS.md">> >>

claude_sections == <<Section(2, "Role"), Section(2, "Allowed Tools"), Section(2, "Safety Boundaries")>>
agents_section == Section(2, "Supported Agents")

required_docs == << <<"README.md">>, <<"LICENSE">>, <<"CONTRIBUTING.md">> >>

\* secret_patterns, each named by its label, in the order they are tried.
secret_patterns == <<"GitHub token", "OpenAI key", "API key", "Password">>
GhpRun == 36
SkRun == 48
ApiKeyMin == 10

exclude_dirs == {".git", "venv", "node_modules", "__pycache__", ".pytest_cache"}
exclude_files == {"validate_structure.py", "test_sdd_validation.py", "mcp.md"}
text_suffixes == {".py", ".yml", ".yaml", ".json", ".md", ".sh", ".txt"}

(***************************************************************************)
(* Substring and regular-expression tests on a content.                    *)
(***************************************************************************)
\* `section in content`: a heading of a deeper level still contains "## title".
Contains(lines, s) ==
    \E i \in 1..Len(lines) :
        lines[i].k = "text" /\ lines[i].v = s.title /\ lines[i].n >= s.level

\* re.findall(r"\[TAG[^\]]*\]", content): the closed markers of that tag, in order.
FindAll(tag, lines) ==
    SelectSeq(lines, LAMBDA l : l.k = "marker" /\ l.v = tag /\ l.n = 1)

\* pattern.search(content) for the pattern with the given label.
LineMatches(label, l) ==
    CASE label = "GitHub token" -> l.k = "ghp" /\ l.n >= GhpRun
      [] label = "OpenAI key" -> l.k = "sk" /\ l.n >= SkRun
      [] label = "API key" -> l.k = "apikey" /\ l.v = "quoted" /\ l.n >= ApiKeyMin
      [] label = "Password" -> l.k = "password" /\ l.v = "quoted" /\ l.n >= 1
      [] OTHER -> FALSE

Search(label, lines) == \E i \in 1..Len(lines) : LineMatches(label, lines[i])

(***************************************************************************)
(* The trees the validator is run on: the layout the scaffolding step      *)
(* creates, changed in at most MaxEdits places.                            *)
(***************************************************************************)
ScaffoldDirs ==
    SeqToSet(required_dirs) \cup { <<"dev-docs">>, <<".github">> }

ScaffoldFile(p) ==
    CASE p \in SeqToSet(required_files) ->
            File(<<Text(1, "Governance")>> \o
                 [i \in 1..Len(required_sections(p)) |-> Text(2, required_sections(p)[i].title)])
      [] p \in SeqToSet(contexts) /\ Name(p) = "CLAUDE.md" ->
            File([i \in 1..Len(claude_sections) |-> Text(2, claude_sections[i].title)])
      [] p \in SeqToSet(contexts) /\ Name(p) = "AGENTS.md" ->
            File(<<Text(2, agents_section.title)>>)
      [] p \in SeqToSet(required_docs) \cup { <<"CHANGELOG.md">> } ->
            File(<<Text(1, "Project")>>)
      [] p \in { <<"scripts", "sdd", "validate_structure.py">>,
                 <<"tests", "test_sdd_validation.py">> } ->
            File(<<Text(0, "code")>>)
      [] OTHER -> Absent

Scaffold == [p \in Paths |-> IF p \in ScaffoldDirs THEN Dir ELSE ScaffoldFile(p)]

Remove(p) == [op |-> "remove", path |-> p, node |-> Absent, line |-> Text(0, "")]
Put(p, node) == [op |-> "put", path |-> p, node |-> node, line |-> Text(0, "")]
Strip(p, line) == [op |-> "strip", path |-> p, node |-> Absent, line |-> line]
AppendLine(p, line) == [op |-> "append", path |-> p, node |-> Absent, line |-> line]

EditList ==
    << Remove(<<"specs">>),
       Remove(<<"templates">>),
       Remove(<<"dev-docs", "cli">>),
       Remove(<<"dev-docs", "sdd">>),
       Remove(<<"dev-docs", "sdd", "constitution.md">>),
       Remove(<<"README.md">>),
       Remove(<<"CHANGELOG.md">>),
       Put(<<".git">>, Dir),
       Put(<<"tests">>, File(<<>>)),
       Put(<<"specs">>, File(<<>>)),
       Put(<<"dev-docs", "sdd", "constitution.md">>, Unreadable("denied")),
       Put(<<"dev-docs", "cli", "CLAUDE.md">>, Unreadable("undecodable")),
       Put(<<"specs", "001-feature", "spec.md">>, Unreadable("denied")),
       Put(<<"config.yml">>, Unreadable("undecodable")),
       Put(<<"scripts", "deploy.sh">>, Unreadable("denied")),
       Strip(<<"dev-docs", "sdd", "constitution.md">>, Text(2, "Core Principles")),
       Strip(<<"dev-docs", "sdd", "constitution_update_checklist.md">>, Text(2, "Pre-Amendment")),
       Strip(<<"dev-docs", "sdd", "CLAUDE.md">>, Text(2, "Role")),
       Strip(<<"dev-docs", "cli", "AGENTS.md">>, Text(2, "Supported Agents")),
       Put(<<"specs", "001-feature", "spec.md">>, File(<<Marker("NEEDS CLARIFICATION", 1)>>)),
       Put(<<"specs", "001-feature", "spec.md">>,
           File(<<Marker("NEEDS CLARIFICATION", 1), Marker("PLACEHOLDER", 1),
                  Marker("NEEDS CLARIFICATION", 1)>>)),
       Put(<<"specs", "overview.md">>, File(<<Marker("NEEDS CLARIFICATION", 1)>>)),
       Put(<<"specs", "overview.md">>,
           File(<<Marker("PLACEHOLDER", 1), Marker("NEEDS CLARIFICATION", 0)>>)),
       Put(<<"specs", "notes.txt">>, File(<<Marker("NEEDS CLARIFICATION", 1)>>)),
       Put(<<"config.yml">>, File(<<Password("quoted", 7)>>)),
       Put(<<"config.yml">>, File(<<Ghp(36), Sk(48), ApiKey("quoted", 10)>>)),
       Put(<<"config.yml">>,
           File(<<Ghp(35), Sk(47), ApiKey("quoted", 9), ApiKey("bare", 12),
                  Password("bare", 7), Password("quoted", 0)>>)),
       Put(<<"node_modules", "pkg", "config.yml">>, File(<<Password("quoted", 7)>>)),
       Put(<<"scripts", "venv", "settings.py">>, File(<<Ghp(36)>>)),
       Put(<<"tests", "test_sdd_validation.py">>, File(<<Password("quoted", 7)>>)),
       Put(<<"logo.png">>, File(<<Password("quoted", 7)>>)),
       Put(<<"scripts", "deploy.sh">>,
           File(<<ApiKey("quoted", 12), Password("quoted", 7), Password("quoted", 9)>>)),
       AppendLine(<<"README.md">>, Ghp(40)) >>

ApplyEdit(t, e) ==
    CASE e.op = "remove" ->
            [p \in Paths |-> IF p = e.path \/ Beneath(p, e.path) THEN Absent ELSE t[p]]
      [] e.op = "put" ->
            [p \in Paths |-> IF p = e.path THEN e.node
                             ELSE IF Beneath(p, e.path) THEN Absent
                             ELSE IF Beneath(e.path, p) THEN Dir
                             ELSE t[p]]
      [] e.op = "strip" ->
            [t EXCEPT ![e.path].lines = SelectSeq(@, LAMBDA l : l # e.line)]
      [] e.op = "append" ->
            IF t[e.path].kind = "file" /\ t[e.path].mode = "ok"
            THEN [t EXCEPT ![e.path].lines = Append(@, e.line)]
            ELSE t

\* The edits of D (indices into EditList) applied in list order.
RECURSIVE ApplyAll(_, _, _)
ApplyAll(t, D, i) ==
    IF i > Len(EditList) THEN t
    ELSE ApplyAll(IF i \in D THEN ApplyEdit(t, EditList[i]) ELSE t, D, i + 1)

RECURSIVE EditSets(_)
EditSets(k) ==
    IF k = 0 THEN {{}}
    ELSE LET S == EditSets(k - 1)
         IN  S \cup {D \cup {i} : D \in S, i \in 1..Len(EditList)}

Trees == {ApplyAll(Scaffold, D, 1) : D \in EditSets(MaxEdits)}

\* Every entry but the root's children lies in a directory.
Consistent(t) ==
    \A p \in Paths :
        /\ t[p].kind # "absent" /\ Len(p) > 1 => t[Parent(p)].kind = "dir"
        /\ t[p].kind # "file" => t[p].mode = "ok" /\ t[p].lines = <<>>
        /\ t[p].mode # "ok" => t[p].lines = <<>>

(***************************************************************************)
(* Findings and printed lines.                                             *)
(***************************************************************************)
\* A finding string: its fixed wording, the path it names, the section or
\* pattern label it names, the matched markers it lists and the count it shows.
Finding(msg, path, arg, found, n) ==
    [msg |-> msg, path |-> path, arg |-> arg, found |-> found, n |-> n]

NoFinding == Finding("", <<>>, "", <<>>, 0)

\* A line on standard output.
Line(t, s, n, f) == [t |-> t, s |-> s, n |-> n, f |-> f]

\* checks: the names, in the order validate_all runs them.
checks ==
    <<"Directory Structure", "Governance Files", "Agent Context Files", "Specification Files",
      "Task Traceability", "Documentation Standards", "Security Checks">>

\* The first statement of each check's body.
Entry(c) == <<"dir", "gov", "agent", "specs", "trace", "docs", "sec">>[c]

(***************************************************************************)
(* File system calls.                                                      *)
(***************************************************************************)
\* Path.exists()
Exists(t, p) == t[p].kind # "absent"

\* Path.read_text(): the text, or the exception raised.
ReadText(t, p) ==
    CASE t[p].kind = "absent" -> [exc |-> "FileNotFoundError", text |-> <<>>]
      [] t[p].kind = "dir" -> [exc |-> "IsADirectoryError", text |-> <<>>]
      [] t[p].mode = "denied" -> [exc |-> "PermissionError", text |-> <<>>]
      [] t[p].mode = "undecodable" -> [exc |-> "UnicodeDecodeError", text |-> <<>>]
      [] OTHER -> [exc |-> "", text |-> t[p].lines]

\* A call of read_text() on path p, made by check c.
Read(c, p) == [check |-> c, path |-> p]

\* The entries of directory d, in listing order.
Children(t, d) == SelectSeq(PathList, LAMBDA p : Parent(p) = d /\ t[p].kind # "absent")

\* specs_dir.rglob("*.md"): the markdown files beneath d at any depth.
RGlobMd(t, d) ==
    IF t[d].kind # "dir" THEN <<>>
    ELSE SelectSeq(PathList,
            LAMBDA p : Beneath(p, d) /\ t[p].kind = "file" /\ Suffix(Name(p)) = ".md")

(***************************************************************************)
(* State.                                                                  *)
(***************************************************************************)
VARIABLES
    tree,        \* the repository tree under repo_root
    errors,      \* self.errors
    warnings,    \* self.warnings
    info,        \* self.info
    out,         \* standard output
    reads,       \* the calls of read_text(), in order
    pc,          \* the statement about to run
    check,       \* index of the check validate_all is at
    all_passed,  \* validate_all's all_passed
    passed,      \* the value the last check returned
    i,           \* a check's loop index
    flag,        \* a check's all_valid / issues_found
    missing,     \* a check's missing list
    todo,        \* the files a check's loop has still to visit
    stack,       \* os.walk: the directories still to visit
    exc,         \* the exception propagating, "" if none
    status,      \* the process exit status, -1 while running
    again,       \* "" in a first run; how the run under way was started otherwise
    first        \* what the first run left, once a further run was started

vars ==
    <<tree, errors, warnings, info, out, reads, pc, check, all_passed, passed,
      i, flag, missing, todo, stack, exc, status, again, first>>

sink == <<errors, warnings, info>>
locals == <<i, flag, missing, todo, stack>>
frame == <<check, all_passed, passed>>

\* What a run leaves behind: the three lists, the output, validate_all's
\* result, the exit status and the exception that ended it.
Outcome(e, w, n, o, r, st, x) ==
    [errors |-> e, warnings |-> w, info |-> n, out |-> o, all_passed |-> r,
     status |-> st, exc |-> x]

NoRun == Outcome(<<>>, <<>>, <<>>, <<>>, TRUE, -1, "")

\* SDDValidator.__init__, called by main.
Init ==
    /\ again = ""
    /\ first = NoRun
    /\ tree \in Trees
    /\ errors = <<>>
    /\ warnings = <<>>
    /\ info = <<>>
    /\ out = <<>>
    /\ reads = <<>>
    /\ pc = "start"
    /\ check = 0
    /\ all_passed = TRUE
    /\ passed = TRUE
    /\ i = 0
    /\ flag = TRUE
    /\ missing = <<>>
    /\ todo = <<>>
    /\ stack = <<>>
    /\ exc = ""
    /\ status = -1

\* A variant that inserts at the front.
AddFront(list, f) == <<f>> \o list

\* list.append
Add(list, f) == Append(list, f)

\* An exception leaves the check and validate_all.
Raise(e) ==
    /\ exc' = e
    /\ pc' = "raised"

\* A check returns r to validate_all.
Return(r) ==
    /\ passed' = r
    /\ pc' = "ret"
    /\ i' = 0
    /\ flag' = TRUE
    /\ missing' = <<>>
    /\ todo' = <<>>
    /\ stack' = <<>>

(***************************************************************************)
(* validate_all                                                            *)
(***************************************************************************)
ValidateAll ==
    /\ pc = "start"
    /\ out' = Append(out, Line("banner", "Starting SDD Structure Validation", 0, NoFinding))
    /\ all_passed' = TRUE
    /\ check' = 1
    /\ pc' = "call"
    /\ UNCHANGED <<tree, again, first, sink, reads, passed, locals, exc, status>>

\* The loop body up to the call: print the name and enter the check.
Call ==
    /\ pc = "call"
    /\ out' = Append(out, Line("checking", checks[check], 0, NoFinding))
    /\ pc' = Entry(check)
    /\ i' = 1
    /\ flag' = (check \in {2, 3})
    /\ missing' = <<>>
    /\ todo' = <<>>
    /\ stack' = IF check = 7 THEN <<Root>> ELSE <<>>
    /\ UNCHANGED <<tree, again, first, sink, reads, frame, exc, status>>

\* A variant that leaves the loop at the first check that failed.
ReturnedShortCircuit ==
    /\ pc = "ret"
    /\ out' = Append(out, Line("status", IF passed THEN "PASS" ELSE "FAIL", 0, NoFinding))
    /\ all_passed' = (all_passed /\ passed)
    /\ IF check < Len(checks) /\ passed
       THEN check' = check + 1 /\ pc' = "call"
       ELSE check' = check /\ pc' = "summary"
    /\ UNCHANGED <<tree, again, first, sink, reads, passed, locals, exc, status>>

\* The loop body after the call: print the status and fold the result.
Returned ==
    /\ pc = "ret"
    /\ out' = Append(out, Line("status", IF passed THEN "PASS" ELSE "FAIL", 0, NoFinding))
    /\ all_passed' = (all_passed /\ passed)
    /\ IF check < Len(checks)
       THEN check' = check + 1 /\ pc' = "call"
       ELSE check' = check /\ pc' = "summary"
    /\ UNCHANGED <<tree, again, first, sink, reads, passed, locals, exc, status>>

(***************************************************************************)
(* check_directory_structure                                               *)
(***************************************************************************)
DirStep ==
    /\ pc = "dir"
    /\ i <= Len(required_dirs)
    /\ LET d == required_dirs[i]
       IN  IF ~Exists(tree, d)
           THEN /\ missing' = Append(missing, d)
                /\ errors' = Add(errors, Finding("Missing required directory", d, "", <<>>, 0))
           ELSE UNCHANGED <<missing, errors>>
    /\ i' = i + 1
    /\ UNCHANGED <<tree, again, first, warnings, info, out, reads, pc, frame, flag, todo, stack, exc, status>>

\* A variant that reports success whatever is missing.
DirResultAlwaysTrue(m) == TRUE

\* return len(missing) == 0
DirResult(m) == Len(m) = 0

DirReturn ==
    /\ pc = "dir"
    /\ i > Len(required_dirs)
    /\ info' = IF missing # <<>>
               THEN Add(info, Finding("Found required directories", <<>>, "", <<>>,
                                      Len(required_dirs) - Len(missing)))
               ELSE Add(info, Finding("All required directories present", <<>>, "", <<>>, 0))
    /\ Return(DirResult(missing))
    /\ UNCHANGED <<tree, again, first, errors, warnings, out, reads, check, all_passed, exc, status>>

(***************************************************************************)
(* check_governance_files                                                  *)
(***************************************************************************)
\* The required sections not found in the text, in order.
MissingSections(sections, text) == SelectSeq(sections, LAMBDA x : ~Contains(text, x))

SectionWarnings(f, sections, text) ==
    [j \in 1..Len(MissingSections(sections, text)) |->
        Finding("Missing section", f, MissingSections(sections, text)[j].title, <<>>, 0)]

\* A variant in which a missing section leaves all_valid alone.
GovValidIgnoringWarnings(all_valid, w) == all_valid

\* all_valid after the section loop of one file that produced the warnings w.
GovValid(all_valid, w) == all_valid /\ w = <<>>

GovStep ==
    /\ pc = "gov"
    /\ i <= Len(required_files)
    /\ LET f == required_files[i]
           r == ReadText(tree, f)
           w == SectionWarnings(f, required_sections(f), r.text)
       IN  IF ~Exists(tree, f)
           THEN /\ errors' = Add(errors, Finding("Missing governance file", f, "", <<>>, 0))
                /\ flag' = FALSE
                /\ i' = i + 1
                /\ UNCHANGED <<warnings, reads, pc, exc>>
           ELSE /\ reads' = Append(reads, Read(check, f))
                /\ IF r.exc # ""
                   THEN /\ Raise(r.exc)
                        /\ UNCHANGED <<warnings, flag, i>>
                   ELSE /\ warnings' = warnings \o w
                        /\ flag' = GovValid(flag, w)
                        /\ i' = i + 1
                        /\ UNCHANGED <<pc, exc>>
                /\ UNCHANGED errors
    /\ UNCHANGED <<tree, again, first, info, out, frame, missing, todo, stack, status>>

GovReturn ==
    /\ pc = "gov"
    /\ i > Len(required_files)
    /\ Return(flag)
    /\ UNCHANGED <<tree, again, first, sink, out, reads, check, all_passed, exc, status>>

(***************************************************************************)
(* check_agent_contexts                                                    *)
(***************************************************************************)
ContextWarnings(f, text) ==
    (IF Name(f) = "CLAUDE.md" THEN SectionWarnings(f, claude_sections, text) ELSE <<>>)
    \o
    (IF Name(f) = "AGENTS.md" /\ ~Contains(text, agents_section)
     THEN <<Finding("Missing 'Supported Agents' section", f, "", <<>>, 0)>>
     ELSE <<>>)

AgentStep ==
    /\ pc = "agent"
    /\ i <= Len(contexts)
    /\ LET f == contexts[i]
           r == ReadText(tree, f)
       IN  IF ~Exists(tree, f)
           THEN /\ errors' = Add(errors, Finding("Missing agent context", f, "", <<>>, 0))
                /\ flag' = FALSE
                /\ i' = i + 1
                /\ UNCHANGED <<warnings, reads, pc, exc>>
           ELSE /\ reads' = Append(reads, Read(check, f))
                /\ IF r.exc # ""
                   THEN /\ Raise(r.exc)
                        /\ UNCHANGED <<warnings, i>>
                   ELSE /\ warnings' = warnings \o ContextWarnings(f, r.text)
                        /\ i' = i + 1
                        /\ UNCHANGED <<pc, exc>>
                /\ UNCHANGED <<errors, flag>>
    /\ UNCHANGED <<tree, again, first, info, out, frame, missing, todo, stack, status>>

AgentReturn ==
    /\ pc = "agent"
    /\ i > Len(contexts)
    /\ Return(flag)
    /\ UNCHANGED <<tree, again, first, sink, out, reads, check, all_passed, exc, status>>

(***************************************************************************)
(* check_specifications                                                    *)
(***************************************************************************)
specs_dir == <<"specs">>

SpecsEnter ==
    /\ pc = "specs"
    /\ IF ~Exists(tree, specs_dir)
       THEN /\ info' = Add(info, Finding("No specs directory yet", <<>>, "", <<>>, 0))
            /\ Return(TRUE)
       ELSE /\ todo' = RGlobMd(tree, specs_dir)
            /\ flag' = FALSE
            /\ pc' = "specs_loop"
            /\ UNCHANGED <<info, passed, i, missing, stack>>
    /\ UNCHANGED <<tree, again, first, errors, warnings, out, reads, check, all_passed, exc, status>>

\* A variant in which a placeholder counts as an issue.
SpecsIssuesCountingPlaceholders(issues_found, c, h) == issues_found \/ c # <<>> \/ h # <<>>

\* issues_found after one file with the clarifications c and placeholders h.
SpecsIssues(issues_found, c, h) == issues_found \/ c # <<>>

SpecsStep ==
    /\ pc = "specs_loop"
    /\ todo # <<>>
    /\ LET f == Head(todo)
           r == ReadText(tree, f)
           c == FindAll("NEEDS CLARIFICATION", r.text)
           h == FindAll("PLACEHOLDER", r.text)
       IN  /\ reads' = Append(reads, Read(check, f))
           /\ IF r.exc # ""
              THEN /\ Raise(r.exc)
                   /\ UNCHANGED <<errors, warnings, flag, todo>>
              ELSE /\ errors' = IF c # <<>>
                                THEN Add(errors, Finding("Unresolved clarifications", f, "", c, 0))
                                ELSE errors
                   /\ warnings' = IF h # <<>>
                                  THEN Add(warnings, Finding("Placeholders", f, "", h, 0))
                                  ELSE warnings
                   /\ flag' = SpecsIssues(flag, c, h)
                   /\ todo' = Tail(todo)
                   /\ UNCHANGED <<pc, exc>>
    /\ UNCHANGED <<tree, again, first, info, out, frame, i, missing, stack, status>>

SpecsReturn ==
    /\ pc = "specs_loop"
    /\ todo = <<>>
    /\ Return(~flag)
    /\ UNCHANGED <<tree, again, first, sink, out, reads, check, all_passed, exc, status>>

(***************************************************************************)
(* check_task_traceability                                                 *)
(***************************************************************************)
git_dir == <<".git">>

TraceCheck ==
    /\ pc = "trace"
    /\ info' = IF ~Exists(tree, git_dir)
               THEN Add(info, Finding("Not a git repository - skipping commit checks", <<>>, "", <<>>, 0))
               ELSE Add(info, Finding("Task ID and commit patterns defined and valid", <<>>, "", <<>>, 0))
    /\ Return(TRUE)
    /\ UNCHANGED <<tree, again, first, errors, warnings, out, reads, check, all_passed, exc, status>>

(***************************************************************************)
(* check_documentation                                                     *)
(***************************************************************************)
DocsStep ==
    /\ pc = "docs"
    /\ i <= Len(required_docs)
    /\ LET d == required_docs[i]
       IN  IF ~Exists(tree, d)
           THEN /\ missing' = Append(missing, d)
                /\ warnings' = Add(warnings, Finding("Missing documentation", d, "", <<>>, 0))
           ELSE UNCHANGED <<missing, warnings>>
    /\ i' = i + 1
    /\ UNCHANGED <<tree, again, first, errors, info, out, reads, pc, frame, flag, todo, stack, exc, status>>

DocsReturn ==
    /\ pc = "docs"
    /\ i > Len(required_docs)
    /\ info' = IF ~Exists(tree, <<"CHANGELOG.md">>)
               THEN Add(info, Finding("CHANGELOG.md not found (will be created)", <<>>, "", <<>>, 0))
               ELSE info
    /\ Return(Len(missing) = 0)
    /\ UNCHANGED <<tree, again, first, errors, warnings, out, reads, check, all_passed, exc, status>>

(***************************************************************************)
(* check_security                                                          *)
(***************************************************************************)
\* A variant that prunes nothing.
PruneNothing(dirs) == dirs

\* dirs[:] = [d for d in dirs if d not in exclude_dirs]
Prune(dirs) == SelectSeq(dirs, LAMBDA d : Name(d) \notin exclude_dirs)

\* One step of os.walk: list the next directory, prune its subdirectories and
\* leave them to be walked, in order, before the directories already pending.
SecWalk ==
    /\ pc = "sec"
    /\ todo = <<>>
    /\ stack # <<>>
    /\ LET entries == Children(tree, Head(stack))
           dirs == SelectSeq(entries, LAMBDA p : tree[p].kind = "dir")
           files == SelectSeq(entries, LAMBDA p : tree[p].kind # "dir")
       IN  /\ todo' = files
           /\ stack' = Prune(dirs) \o Tail(stack)
    /\ UNCHANGED <<tree, again, first, sink, out, reads, pc, frame, i, flag, missing, exc, status>>

\* The file name tests that precede the read.
Scanned(f) == Name(f) \notin exclude_files /\ Suffix(Name(f)) \in text_suffixes

\* A variant that catches decoding failures only.
CaughtDecodeOnly(e) == e = "UnicodeDecodeError"

\* except (UnicodeDecodeError, PermissionError): continue
Caught(e) == e \in {"UnicodeDecodeError", "PermissionError"}

\* A variant that stops at the first pattern that matches.
SecretFindingsFirstOnly(f, text) ==
    LET hit == SelectSeq(secret_patterns, LAMBDA l : Search(l, text))
    IN  IF hit = <<>> THEN <<>> ELSE <<Finding("Potential secret", f, hit[1], <<>>, 0)>>

\* The errors the pattern loop appends for file f with the given text.
SecretFindings(f, text) ==
    LET hit == SelectSeq(secret_patterns, LAMBDA l : Search(l, text))
    IN  [j \in 1..Len(hit) |-> Finding("Potential secret", f, hit[j], <<>>, 0)]

SecFile ==
    /\ pc = "sec"
    /\ todo # <<>>
    /\ LET f == Head(todo)
           r == ReadText(tree, f)
           e == SecretFindings(f, r.text)
       IN  IF ~Scanned(f)
           THEN /\ todo' = Tail(todo)
                /\ UNCHANGED <<errors, reads, flag, pc, exc>>
           ELSE /\ reads' = Append(reads, Read(check, f))
                /\ IF r.exc = ""
                   THEN /\ errors' = errors \o e
                        /\ flag' = (flag \/ e # <<>>)
                        /\ todo' = Tail(todo)
                        /\ UNCHANGED <<pc, exc>>
                   ELSE IF Caught(r.exc)
                   THEN /\ todo' = Tail(todo)
                        /\ UNCHANGED <<errors, flag, pc, exc>>
                   ELSE /\ Raise(r.exc)
                        /\ UNCHANGED <<errors, flag, todo>>
    /\ UNCHANGED <<tree, again, first, warnings, info, out, frame, i, missing, stack, status>>

SecReturn ==
    /\ pc = "sec"
    /\ todo = <<>>
    /\ stack = <<>>
    /\ info' = IF ~flag
               THEN Add(info, Finding("No hardcoded secrets detected", <<>>, "", <<>>, 0))
               ELSE info
    /\ Return(~flag)
    /\ UNCHANGED <<tree, again, first, errors, warnings, out, reads, check, all_passed, exc, status>>

(***************************************************************************)
(* print_summary, the return of validate_all, and main                     *)
(***************************************************************************)
Group(title, list) ==
    IF list = <<>> THEN <<>>
    ELSE <<Line("group", title, Len(list), NoFinding)>> \o
         [j \in 1..Len(list) |-> Line("item", title, 0, list[j])]

Verdict(e, w) ==
    IF e = <<>> /\ w = <<>> THEN "All SDD structure validations passed!"
    ELSE IF e = <<>> THEN "Validation passed with warnings"
    ELSE "Validation failed - please fix errors"

\* self.print_summary(); return all_passed
PrintSummary ==
    /\ pc = "summary"
    /\ out' = out \o <<Line("rule", "VALIDATION SUMMARY", 0, NoFinding)>>
                  \o Group("ERRORS", errors) \o Group("WARNINGS", warnings) \o Group("INFO", info)
                  \o <<Line("verdict", Verdict(errors, warnings), 0, NoFinding)>>
    /\ pc' = "returned"
    /\ UNCHANGED <<tree, again, first, sink, reads, frame, locals, exc, status>>

\* main, after validate_all returned success.
ExitCode(success, w) == IF ~success THEN 1 ELSE IF w # <<>> THEN 0 ELSE 0

Exit ==
    /\ pc = "returned"
    /\ status' = ExitCode(all_passed, warnings)
    /\ pc' = "exited"
    /\ UNCHANGED <<tree, again, first, sink, out, reads, frame, locals, exc>>

\* An exception no frame catches: the interpreter prints the traceback and
\* exits with status 1.
Abort ==
    /\ pc = "raised"
    /\ status' = 1
    /\ pc' = "exited"
    /\ UNCHANGED <<tree, again, first, sink, out, reads, frame, locals, exc>>

(***************************************************************************)
(* A second run of the program on the same tree.                           *)
(***************************************************************************)
\* A variant in which the list is a class attribute the instances share.
FreshShared(old) == old

\* self.errors = [] in __init__: the new validator's list, whatever the list
\* of an earlier validator held.
Fresh(old) == <<>>

\* The command is run again once the first process has ended: main builds a
\* new SDDValidator for the same repo_root.
MainAgain ==
    /\ pc = "exited"
    /\ again = ""
    /\ again' = "process"
    /\ first' = Outcome(errors, warnings, info, out, all_passed, status, exc)
    /\ errors' = Fresh(errors)
    /\ warnings' = Fresh(warnings)
    /\ info' = Fresh(info)
    /\ out' = <<>>
    /\ reads' = <<>>
    /\ pc' = "start"
    /\ check' = 0
    /\ all_passed' = TRUE
    /\ passed' = TRUE
    /\ exc' = ""
    /\ status' = -1
    /\ UNCHANGED <<tree, locals>>

(***************************************************************************)
(* A second call of validate_all on the same SDDValidator.                 *)
(***************************************************************************)
\* A caller that holds the validator calls validate_all() again after it
\* returned: nothing but __init__ assigns the three lists, so they are kept.
ValidateAgain ==
    /\ pc = "returned"
    /\ again = ""
    /\ again' = "call"
    /\ first' = Outcome(errors, warnings, info, out, all_passed, status, exc)
    /\ pc' = "start"
    /\ UNCHANGED <<tree, sink, out, reads, frame, locals, exc, status>>

Next ==
    \/ ValidateAll
    \/ Call
    \/ Returned
    \/ DirStep
    \/ DirReturn
    \/ GovStep
    \/ GovReturn
    \/ AgentStep
    \/ AgentReturn
    \/ SpecsEnter
    \/ SpecsStep
    \/ SpecsReturn
    \/ TraceCheck
    \/ DocsStep
    \/ DocsReturn
    \/ SecWalk
    \/ SecFile
    \/ SecReturn
    \/ PrintSummary
    \/ Exit
    \/ Abort

Spec == Init /\ [][Next]_vars

\* The program run twice in a row on one tree.
NextTwice == Next \/ MainAgain

SpecTwice == Init /\ [][NextTwice]_vars

\* One validator whose validate_all may be called a second time.
NextReuse == Next \/ ValidateAgain

SpecReuse == Init /\ [][NextReuse]_vars

(***************************************************************************)
(* Vocabulary of the properties.                                           *)
(***************************************************************************)
\* The PASS/FAIL lines printed so far, one per check that returned.
Statuses == SelectSeq(out, LAMBDA l : l.t = "status")

\* Check c has returned.
Finished(c) == Len(Statuses) >= c \/ (check = c /\ pc = "ret")

\* The value check c returned.
ResultOf(c) == IF Len(Statuses) >= c THEN Statuses[c].s = "PASS" ELSE passed

\* The check that words a finding this way (0: none).
CheckOf(msg) ==
    CASE msg \in {"Missing required directory", "Found required directories",
                  "All required directories present"} -> 1
      [] msg \in {"Missing governance file"} -> 2
      [] msg \in {"Missing agent context", "Missing 'Supported Agents' section"} -> 3
      [] msg \in {"Unresolved clarifications", "Placeholders", "No specs directory yet"} -> 4
      [] msg \in {"Not a git repository - skipping commit checks",
                  "Task ID and commit patterns defined and valid"} -> 5
      [] msg \in {"Missing documentation", "CHANGELOG.md not found (will be created)"} -> 6
      [] msg \in {"Potential secret", "No hardcoded secrets detected"} -> 7
      [] OTHER -> 0

\* The check that produced a finding.
Producer(f) ==
    IF f.msg = "Missing section"
    THEN (IF f.path \in SeqToSet(required_files) THEN 2 ELSE 3)
    ELSE CheckOf(f.msg)

\* The tree is one a file system can hold.
TreeConsistent == Consistent(tree)

\* validate_all has returned normally.
RunReturned == pc = "returned" \/ (pc = "exited" /\ exc = "")

\* The number of entries of list that satisfy Test.
HowMany(list, Test(_)) == Len(SelectSeq(list, Test))

\* Some directory on the way from the root to p has an excluded name.
InExcludedDir(p) == \E j \in 1..(Len(p) - 1) : p[j] \in exclude_dirs

(***************************************************************************)
(* C1.  A run whose errors list is empty at the end succeeds: validate_all *)
(* returns true and the exit status is zero, also when warnings were       *)
(* recorded.                                                               *)
(***************************************************************************)
C1_NoErrorsMeansSuccess ==
    /\ RunReturned /\ errors = <<>> => all_passed
    /\ pc = "exited" /\ exc = "" /\ errors = <<>> => status = 0

(***************************************************************************)
(* C2.  Every recorded error implies failure: a check that appended an     *)
(* error returned false, validate_all then returns false, and the exit     *)
(* status is not zero.                                                     *)
(***************************************************************************)
C2_ErrorImpliesFailure ==
    /\ \A c \in 1..Len(checks) :
          Finished(c) /\ (\E j \in 1..Len(errors) : Producer(errors[j]) = c) => ~ResultOf(c)
    /\ (pc = "summary" \/ RunReturned) /\ errors # <<>> => ~all_passed
    /\ pc = "exited" /\ errors # <<>> => status # 0

\* A finished run with a directory error and a secret error.
C2_Witness ==
    /\ pc = "exited"
    /\ exc = ""
    /\ \E j \in 1..Len(errors) : Producer(errors[j]) = 1
    /\ \E j \in 1..Len(errors) : Producer(errors[j]) = 7
    /\ status = 1

(***************************************************************************)
(* C3.  check_governance_files: an absent file gets exactly one error and  *)
(* no warning; a present file gets no error and exactly one warning per    *)
(* required section its content lacks; the check returns true iff every    *)
(* file exists and every section was found, so warnings alone make it      *)
(* return false.                                                           *)
(***************************************************************************)
GovErrorsFor(f) ==
    HowMany(errors, LAMBDA x : x.msg = "Missing governance file" /\ x.path = f)

GovWarningsFor(f, title) ==
    HowMany(warnings, LAMBDA x : x.msg = "Missing section" /\ x.path = f /\ x.arg = title)

HasSection(f, s) ==
    \E j \in 1..Len(tree[f].lines) :
        tree[f].lines[j].k = "text" /\ tree[f].lines[j].v = s.title

C3_GovernanceContract ==
    Finished(2) =>
        /\ \A j \in 1..Len(required_files) :
              LET f == required_files[j]
                  S == required_sections(f)
              IN  IF tree[f].kind = "absent"
                  THEN /\ GovErrorsFor(f) = 1
                       /\ HowMany(warnings, LAMBDA x : x.path = f) = 0
                       /\ \A r \in SeqToSet(reads) : r.check = 2 => r.path # f
                  ELSE /\ HowMany(errors, LAMBDA x : Producer(x) = 2 /\ x.path = f) = 0
                       /\ \A k \in 1..Len(S) :
                             GovWarningsFor(f, S[k].title) = IF HasSection(f, S[k]) THEN 0 ELSE 1
        /\ ResultOf(2) =
              \A j \in 1..Len(required_files) :
                  /\ tree[required_files[j]].kind # "absent"
                  /\ \A k \in 1..Len(required_sections(required_files[j])) :
                        HasSection(required_files[j], required_sections(required_files[j])[k])

\* The check returned false with one file absent, and another present but
\* lacking a section for which it recorded a warning and no error.
C3_Witness ==
    /\ Finished(2)
    /\ ~ResultOf(2)
    /\ \E f \in SeqToSet(required_files) : tree[f].kind = "absent" /\ GovErrorsFor(f) = 1
    /\ \E f \in SeqToSet(required_files) :
          /\ tree[f].kind = "file"
          /\ \E k \in 1..Len(required_sections(f)) :
                GovWarningsFor(f, required_sections(f)[k].title) = 1

(***************************************************************************)
(* C4.  check_directory_structure: every required path that is not present *)
(* as a directory (absent, or a regular file) gets exactly one error, and  *)
(* the check returns true iff every required path is a directory.          *)
(***************************************************************************)
DirErrorsFor(d) ==
    HowMany(errors, LAMBDA x : x.msg = "Missing required directory" /\ x.path = d)

C4_DirectoryContract ==
    Finished(1) =>
        /\ \A j \in 1..Len(required_dirs) :
              DirErrorsFor(required_dirs[j]) = IF tree[required_dirs[j]].kind = "dir" THEN 0 ELSE 1
        /\ ResultOf(1) = \A j \in 1..Len(required_dirs) : tree[required_dirs[j]].kind = "dir"

(***************************************************************************)
(* C5.  check_specifications returns true iff no markdown file beneath     *)
(* specs, at any depth, holds a clarification marker; such a file gets an  *)
(* error; a file with placeholder markers only gets a warning and no       *)
(* error; with no specs directory the check returns true after exactly one *)
(* info note and no error or warning.                                      *)
(***************************************************************************)
SpecFiles ==
    {p \in Paths : Beneath(p, specs_dir) /\ tree[p].kind = "file" /\ Suffix(Name(p)) = ".md"}

HasMarker(p, tag) ==
    \E j \in 1..Len(tree[p].lines) :
        tree[p].lines[j] = [k |-> "marker", v |-> tag, n |-> 1]

ClarErrorsFor(p) ==
    HowMany(errors, LAMBDA x : x.msg = "Unresolved clarifications" /\ x.path = p)

PlaceholderWarningsFor(p) ==
    HowMany(warnings, LAMBDA x : x.msg = "Placeholders" /\ x.path = p)

C5_SpecificationsContract ==
    Finished(4) =>
        /\ ResultOf(4) = ~(\E p \in SpecFiles : HasMarker(p, "NEEDS CLARIFICATION"))
        /\ \A p \in SpecFiles :
              /\ ClarErrorsFor(p) = IF HasMarker(p, "NEEDS CLARIFICATION") THEN 1 ELSE 0
              /\ PlaceholderWarningsFor(p) = IF HasMarker(p, "PLACEHOLDER") THEN 1 ELSE 0
        /\ tree[specs_dir].kind = "absent" =>
              /\ ResultOf(4)
              /\ HowMany(info, LAMBDA x : Producer(x) = 4) = 1
              /\ HowMany(errors, LAMBDA x : Producer(x) = 4) = 0
              /\ HowMany(warnings, LAMBDA x : Producer(x) = 4) = 0

\* The check returned false for a clarification marker two levels down,
\* having recorded only a warning for a file with a placeholder alone.
C5_Witness ==
    /\ Finished(4)
    /\ ~ResultOf(4)
    /\ \E p \in SpecFiles :
          Len(p) > 2 /\ HasMarker(p, "NEEDS CLARIFICATION") /\ ClarErrorsFor(p) = 1
    /\ \E p \in SpecFiles :
          /\ HasMarker(p, "PLACEHOLDER")
          /\ ~HasMarker(p, "NEEDS CLARIFICATION")
          /\ PlaceholderWarningsFor(p) = 1
          /\ ClarErrorsFor(p) = 0

(***************************************************************************)
(* C6.  check_security prunes a subdirectory with an excluded name before  *)
(* the walk descends into it, at every depth: no file beneath such a       *)
(* directory is read or reported, whatever its content.                    *)
(***************************************************************************)
SecretErrorsFor(p, label) ==
    HowMany(errors, LAMBDA x : x.msg = "Potential secret" /\ x.path = p /\ x.arg = label)

C6_ExcludedNeverScanned ==
    /\ \A j \in 1..Len(stack) : \A k \in 1..Len(stack[j]) : stack[j][k] \notin exclude_dirs
    /\ \A j \in 1..Len(todo) : pc = "sec" => ~InExcludedDir(todo[j])
    /\ \A p \in Paths :
          InExcludedDir(p) =>
              /\ Read(7, p) \notin SeqToSet(reads)
              /\ HowMany(errors, LAMBDA x : Producer(x) = 7 /\ x.path = p) = 0

\* The walk is over: the password line was reported for config.yml at the
\* root and not for the same content two levels below node_modules.
C6_Witness ==
    /\ Finished(7)
    /\ tree[<<"node_modules", "pkg", "config.yml">>].kind = "file"
    /\ tree[<<"node_modules", "pkg", "config.yml">>].lines = tree[<<"config.yml">>].lines
    /\ Search("Password", tree[<<"config.yml">>].lines)
    /\ SecretErrorsFor(<<"config.yml">>, "Password") = 1
    /\ SecretErrorsFor(<<"node_modules", "pkg", "config.yml">>, "Password") = 0

(***************************************************************************)
(* C7.  check_security appends exactly one error per eligible file and     *)
(* secret pattern that matches in it; a file is eligible iff it lies       *)
(* outside every excluded directory, its name is not excluded and its      *)
(* extension is allowed; the error carries the relative path and the label *)
(* and not the matched text; the check returns true iff there is no such   *)
(* pair.                                                                   *)
(***************************************************************************)
Eligible(p) ==
    /\ tree[p].kind = "file"
    /\ ~InExcludedDir(p)
    /\ Name(p) \notin exclude_files
    /\ Suffix(Name(p)) \in text_suffixes

SecretIn(p, label) ==
    \E j \in 1..Len(tree[p].lines) : LineMatches(label, tree[p].lines[j])

C7_SecurityContract ==
    /\ \A j \in 1..Len(errors) :
          errors[j].msg = "Potential secret" =>
              /\ errors[j].path \in Paths
              /\ errors[j].arg \in SeqToSet(secret_patterns)
              /\ errors[j].found = <<>>
    /\ Finished(7) =>
          /\ \A p \in Paths : \A l \in SeqToSet(secret_patterns) :
                SecretErrorsFor(p, l) = IF Eligible(p) /\ SecretIn(p, l) THEN 1 ELSE 0
          /\ ResultOf(7) = ~(\E p \in Paths : \E l \in SeqToSet(secret_patterns) :
                                Eligible(p) /\ SecretIn(p, l))

\* config.yml holds a password assignment only: one error, labelled Password.
C7_Witness ==
    /\ Finished(7)
    /\ ~ResultOf(7)
    /\ tree[<<"config.yml">>].lines = <<Password("quoted", 7)>>
    /\ SelectSeq(errors, LAMBDA x : x.msg = "Potential secret")
          = <<Finding("Potential secret", <<"config.yml">>, "Password", <<>>, 0)>>

(***************************************************************************)
(* C8.  In check_security a file that cannot be read as text is skipped    *)
(* silently: the three lists and the check's result stay as they are, no   *)
(* exception leaves the check, and every other eligible file is still      *)
(* read and reported.                                                      *)
(***************************************************************************)
AtUnreadable ==
    /\ pc = "sec"
    /\ todo # <<>>
    /\ Scanned(Head(todo))
    /\ tree[Head(todo)].mode # "ok"

C8_SkipStep ==
    AtUnreadable =>
        /\ UNCHANGED <<errors, warnings, info, flag>>
        /\ pc' = "sec"
        /\ exc' = ""
        /\ todo' = Tail(todo)

C8_UnreadableSkipped ==
    /\ [][C8_SkipStep]_vars
    /\ [](Finished(7) =>
            /\ \A p \in Paths : Eligible(p) => Read(7, p) \in SeqToSet(reads)
            /\ \A p \in Paths : \A l \in SeqToSet(secret_patterns) :
                  Eligible(p) /\ SecretIn(p, l) => SecretErrorsFor(p, l) = 1
            /\ \A p \in Paths :
                  Eligible(p) /\ tree[p].mode # "ok" =>
                      HowMany(errors \o warnings \o info, LAMBDA x : x.path = p) = 0)

\* The walk is over: it met an undecodable config.yml, reported nothing for
\* it, and went on to report the secrets of a file it visited afterwards.
C8_Witness ==
    /\ Finished(7)
    /\ ~ResultOf(7)
    /\ tree[<<"config.yml">>].mode = "undecodable"
    /\ Read(7, <<"config.yml">>) \in SeqToSet(reads)
    /\ HowMany(errors \o warnings \o info, LAMBDA x : x.path = <<"config.yml">>) = 0
    /\ SecretErrorsFor(<<"scripts", "deploy.sh">>, "Password") = 1

(***************************************************************************)
(* C9.  No exception leaves a check: validate_all runs the seven checks,   *)
(* prints the summary and returns, also when a governance file, an agent   *)
(* context file or a markdown file under specs cannot be read.             *)
(***************************************************************************)
C9_NoExceptionEscapes ==
    /\ exc = ""
    /\ pc = "exited" =>
          /\ Len(Statuses) = Len(checks)
          /\ HowMany(out, LAMBDA l : l.t = "verdict") = 1

(***************************************************************************)
(* C10.  errors, warnings and info are append-only: each step leaves the   *)
(* old value of each list a prefix of the new one, so the entries stand in *)
(* the order the checks ran and, within a check, in the order the findings *)
(* were discovered.                                                        *)
(***************************************************************************)
InCheckOrder(list) ==
    \A a, b \in 1..Len(list) : a < b => Producer(list[a]) <= Producer(list[b])

\* The missing-directory errors name the directories in required_dirs order.
DirErrorsInOrder ==
    LET named == SelectSeq(errors, LAMBDA x : x.msg = "Missing required directory")
        gone == SelectSeq(required_dirs, LAMBDA d : tree[d].kind = "absent")
    IN  /\ Len(named) <= Len(gone)
        /\ \A j \in 1..Len(named) : named[j].path = gone[j]

C10_AppendOnly ==
    /\ [][/\ IsPrefix(errors, errors')
          /\ IsPrefix(warnings, warnings')
          /\ IsPrefix(info, info')]_vars
    /\ [](InCheckOrder(errors) /\ InCheckOrder(warnings) /\ InCheckOrder(info))
    /\ []DirErrorsInOrder

\* A finished run that recorded two missing directories, later errors of
\* another check, a warning and several notes.
C10_Witness ==
    /\ pc = "exited"
    /\ exc = ""
    /\ HowMany(errors, LAMBDA x : Producer(x) = 1) >= 2
    /\ HowMany(errors, LAMBDA x : Producer(x) > 1) >= 1
    /\ warnings # <<>>
    /\ Len(info) >= 2

(***************************************************************************)
(* C11.  The validator is idempotent and leaves the tree alone: a second   *)
(* run on the unchanged tree ends with the same errors, warnings and info  *)
(* (same entries, same order), the same output, the same result and the    *)
(* same exit status as the first, and no step of either run changes the    *)
(* tree.                                                                   *)
(***************************************************************************)
SecondRunOver == again = "process" /\ pc = "exited"

C12_EmptyAtStart ==
    /\ pc = "start" => errors = <<>> /\ warnings = <<>> /\ info = <<>>
    /\ again = "call" /\ pc = "returned" =>
          /\ Len(errors) <= Len(first.errors)
          /\ Len(warnings) <= Len(first.warnings)
          /\ Len(info) <= Len(first.info)

(***************************************************************************)
(* C13.  validate_all calls the seven checks once each in the fixed order, *)
(* each returning before the next is called; a check that returns false    *)
(* does not end the sequence, so the later checks still run and record     *)
(* their findings; print_summary runs only after the last check.           *)
(***************************************************************************)
\* The "Checking <name>..." and PASS/FAIL lines printed so far.
Progress == SelectSeq(out, LAMBDA l : l.t \in {"checking", "status"})

\* The j-th such line of a run: the name of check (j+1)/2, then its status.
InTurn(j) ==
    IF j % 2 = 1
    THEN Progress[j].t = "checking" /\ Progress[j].s = checks[(j + 1) \div 2]
    ELSE Progress[j].t = "status"

InsideCheck ==
    pc \in {"dir", "gov", "agent", "specs", "specs_loop", "trace", "docs", "sec", "ret"}

\* The statements of check c, and its return.
BodyOf(c) == {Entry(c), "ret"} \cup (IF c = 4 THEN {"specs_loop"} ELSE {})

Records(c) ==
    \E j \in 1..Len(errors \o warnings \o info) : Producer((errors \o warnings \o info)[j]) = c

C13_ChecksInOrder ==
    /\ [](/\ Len(Progress) <= 2 * Len(checks)
          /\ \A j \in 1..Len(Progress) : InTurn(j))
    /\ [](InsideCheck => Len(Progress) = 2 * check - 1 /\ pc \in BodyOf(check))
    /\ [][pc = "ret" /\ check < Len(checks) => pc' = "call" /\ check' = check + 1]_vars
    /\ [][pc = "ret" /\ check = Len(checks) => pc' = "summary"]_vars
    /\ []((\E j \in 1..Len(out) : out[j].t \in {"rule", "verdict"}) =>
              Len(Statuses) = Len(checks))
    /\ [](RunReturned =>
              /\ Len(Progress) = 2 * Len(checks)
              /\ Records(1) /\ Records(5) /\ Records(7))

\* validate_all returned: the first check failed, the second passed, and the
\* last one still ran and recorded the secret it found.
C13_Witness ==
    /\ pc = "returned"
    /\ ~ResultOf(1)
    /\ ResultOf(2)
    /\ ~ResultOf(7)
    /\ \E j \in 1..Len(errors) : Producer(errors[j]) = 7
    /\ Len(Progress) = 2 * Len(checks)

(***************************************************************************)
(* C14.  The last line print_summary prints agrees with what the run       *)
(* returns: "Validation failed" iff validate_all returns false and the     *)
(* exit status is 1, one of the two "passed" lines iff it returns true and *)
(* the exit status is 0; no run prints a passed line and exits non-zero.   *)
(***************************************************************************)
\* The status lines print_summary has printed.
Verdicts == SelectSeq(out, LAMBDA l : l.t = "verdict")

PrintedFailed == Verdicts # <<>> /\ Verdicts[Len(Verdicts)].s = "Validation failed - please fix errors"

PrintedPassed ==
    /\ Verdicts # <<>>
    /\ Verdicts[Len(Verdicts)].s \in {"All SDD structure validations passed!",
                                      "Validation passed with warnings"}

C14_VerdictAgrees ==
    /\ RunReturned => (PrintedFailed <=> ~all_passed) /\ (PrintedPassed <=> all_passed)
    /\ pc = "exited" /\ PrintedPassed => status = 0
    /\ pc = "exited" /\ PrintedFailed => status = 1

==========================================================================
